---- MODULE Spec2Model ----
(***************************************************************************)
(* Resistor network calculator: the value-series generator, the topology   *)
(* calculator, the catalog builder, the resistance codec, the database     *)
(* generator and the nearest-network query.                                *)
(*                                                                         *)
(* Numbers.  Resistances used by the builder, the tables and the query are *)
(* exact rationals <<numerator, denominator>> in lowest terms: a Python    *)
(* float is read as the real number it stands for.  The resistance codec   *)
(* (encode_resistance / decode_resistance) depends on binary64 rounding,   *)
(* so it is modelled on IEEE-754 doubles (section "binary64").             *)
(***************************************************************************)
EXTENDS Integers, Sequences, FiniteSets, TLC

VARIABLES
    pc,                     \* position of the running scenario
    args,                   \* the arguments of the operation under way
    raised,                 \* the exception the last operation raised ("" when none)
    network,                \* the last ResistorNetwork constructed or returned
    resistor_values,        \* the value sequence handed to the builder
    combos,                 \* apply_combinatorics: the catalog dict, in insertion order
    constructed,            \* number of ResistorNetwork objects apply_combinatorics built
    held,                   \* codec: the float handed to encode_resistance
    encoded,                \* codec: the (magnitude, decade) pair encode_resistance returned
    decoded,                \* codec: the number decode_resistance returned
    table,                  \* the rows of resistor_networks in resistor_networks.db
    txt,                    \* the sorted-key file of each catalog
    step,                   \* generate_database_files: index of the catalog under way
    available_resistances,  \* ResistorNetworkDatabaseManager: the loaded arrays
    networks,               \* ResistorCalc: the loaded catalog dicts
    selected,               \* nearest_network: nearest_resistance (None before the search)
    data                    \* the records of a catalog file (.bin), in file order

callVars == <<args, raised, network>>
builderVars == <<resistor_values, combos, constructed>>
codecVars == <<held, encoded, decoded>>
dbVars == <<table, txt, step>>
queryVars == <<available_resistances, networks, selected>>
recordVars == <<data>>
vars == <<pc, callVars, builderVars, codecVars, dbVars, queryVars, recordVars>>

----------------------------------------------------------------------------
(* Bounds of the model *)

MaxVal == 4         \* builder and calculator inputs are whole ohms 0..MaxVal
MaxLen == 3         \* longest free value sequence handed to the builder
SeriesPrefix == 2   \* series literals each catalog of the database generator is built from
MaxKey == 3         \* the query's arrays hold keys among 10, 20, ..., 10 * MaxKey
MaxSlot == 2        \* networks made into records hold whole ohms 0..MaxSlot

----------------------------------------------------------------------------
(* Exact rationals *)

Abs(x) == IF x < 0 THEN -x ELSE x

RECURSIVE GCD(_, _)
GCD(a, b) == IF b = 0 THEN a ELSE GCD(b, a % b)

Rat(n, d) == LET g == GCD(Abs(n), d) IN <<n \div g, d \div g>>

Zero == <<0, 1>>
None == <<0, 0>>    \* Python's None where a number is expected

RatAdd(x, y) == Rat(x[1] * y[2] + y[1] * x[2], x[2] * y[2])
RatSub(x, y) == Rat(x[1] * y[2] - y[1] * x[2], x[2] * y[2])
RatInv(x) == <<x[2], x[1]>>
RatLess(x, y) == x[1] * y[2] < y[1] * x[2]
RatLeq(x, y) == x[1] * y[2] <= y[1] * x[2]
RatAbs(x) == <<Abs(x[1]), x[2]>>

----------------------------------------------------------------------------
(* ResistorNetwork.py: the topology tags and the network *)

SINGLE_SERIES == 0
DOUBLE_SERIES == 1
TRIPLE_SERIES == 2
SINGLE_PARALLEL == 3
DOUBLE_PARALLEL == 4
TRIPLE_PARALLEL == 5
SINGLE_SERIES_DOUBLE_PARALLEL == 6
DOUBLE_SERIES_SINGLE_PARALLEL == 7

ResistorNetworkType == 0..7

Ok(v) == [exc |-> "", val |-> v]
Raise(e) == [exc |-> e, val |-> None]

\* calculate_resistance with the two asymmetric formulas exchanged
calculate_resistance_swapped(configuration, resistors) ==
    LET r1 == resistors[1]
        r2 == resistors[2]
        r3 == resistors[3]
    IN  IF configuration \in {SINGLE_SERIES, DOUBLE_SERIES, TRIPLE_SERIES}
        THEN Ok(RatAdd(RatAdd(r1, r2), r3))
        ELSE IF configuration = TRIPLE_PARALLEL
        THEN IF r1 = Zero \/ r2 = Zero \/ r3 = Zero THEN Raise("ZeroDivisionError")
             ELSE Ok(RatInv(RatAdd(RatAdd(RatInv(r1), RatInv(r2)), RatInv(r3))))
        ELSE IF configuration = DOUBLE_PARALLEL
        THEN IF r1 = Zero \/ r2 = Zero THEN Raise("ZeroDivisionError")
             ELSE Ok(RatInv(RatAdd(RatInv(r1), RatInv(r2))))
        ELSE IF configuration = DOUBLE_SERIES_SINGLE_PARALLEL
        THEN IF r2 = Zero \/ r3 = Zero THEN Raise("ZeroDivisionError")
             ELSE Ok(RatAdd(r1, RatInv(RatAdd(RatInv(r2), RatInv(r3)))))
        ELSE IF configuration = SINGLE_SERIES_DOUBLE_PARALLEL
        THEN IF RatAdd(r1, r2) = Zero \/ r3 = Zero THEN Raise("ZeroDivisionError")
             ELSE Ok(RatInv(RatAdd(RatInv(RatAdd(r1, r2)), RatInv(r3))))
        ELSE Ok(None)

\* calculate_resistance with the double-parallel case reading all three slots
calculate_resistance_reading_third(configuration, resistors) ==
    LET r1 == resistors[1]
        r2 == resistors[2]
        r3 == resistors[3]
    IN  IF configuration \in {SINGLE_SERIES, DOUBLE_SERIES, TRIPLE_SERIES}
        THEN Ok(RatAdd(RatAdd(r1, r2), r3))
        ELSE IF configuration \in {TRIPLE_PARALLEL, DOUBLE_PARALLEL}
        THEN IF r1 = Zero \/ r2 = Zero \/ r3 = Zero THEN Raise("ZeroDivisionError")
             ELSE Ok(RatInv(RatAdd(RatAdd(RatInv(r1), RatInv(r2)), RatInv(r3))))
        ELSE IF configuration = SINGLE_SERIES_DOUBLE_PARALLEL
        THEN IF r2 = Zero \/ r3 = Zero THEN Raise("ZeroDivisionError")
             ELSE Ok(RatAdd(r1, RatInv(RatAdd(RatInv(r2), RatInv(r3)))))
        ELSE IF configuration = DOUBLE_SERIES_SINGLE_PARALLEL
        THEN IF RatAdd(r1, r2) = Zero \/ r3 = Zero THEN Raise("ZeroDivisionError")
             ELSE Ok(RatInv(RatAdd(RatInv(RatAdd(r1, r2)), RatInv(r3))))
        ELSE Ok(None)

\* The match statement: each case evaluates left to right, a division by a
\* zero slot raises ZeroDivisionError, and a tag no case matches
\* (SINGLE_PARALLEL) falls off the end and returns None.
calculate_resistance(configuration, resistors) ==
    LET r1 == resistors[1]
        r2 == resistors[2]
        r3 == resistors[3]
    IN  IF configuration \in {SINGLE_SERIES, DOUBLE_SERIES, TRIPLE_SERIES}
        THEN Ok(RatAdd(RatAdd(r1, r2), r3))
        ELSE IF configuration = TRIPLE_PARALLEL
        THEN IF r1 = Zero \/ r2 = Zero \/ r3 = Zero THEN Raise("ZeroDivisionError")
             ELSE Ok(RatInv(RatAdd(RatAdd(RatInv(r1), RatInv(r2)), RatInv(r3))))
        ELSE IF configuration = DOUBLE_PARALLEL
        THEN IF r1 = Zero \/ r2 = Zero THEN Raise("ZeroDivisionError")
             ELSE Ok(RatInv(RatAdd(RatInv(r1), RatInv(r2))))
        ELSE IF configuration = SINGLE_SERIES_DOUBLE_PARALLEL
        THEN IF r2 = Zero \/ r3 = Zero THEN Raise("ZeroDivisionError")
             ELSE Ok(RatAdd(r1, RatInv(RatAdd(RatInv(r2), RatInv(r3)))))
        ELSE IF configuration = DOUBLE_SERIES_SINGLE_PARALLEL
        THEN IF RatAdd(r1, r2) = Zero \/ r3 = Zero THEN Raise("ZeroDivisionError")
             ELSE Ok(RatInv(RatAdd(RatInv(RatAdd(r1, r2)), RatInv(r3))))
        ELSE Ok(None)

NoNetwork == [configuration |-> -1, resistors |-> <<>>, resistance |-> None]

\* ResistorNetwork.__init__
ResistorNetwork(configuration, resistors) ==
    IF Len(resistors) # 3
    THEN [exc |-> "ValueError", net |-> NoNetwork]
    ELSE LET r == calculate_resistance(configuration, resistors)
         IN  IF r.exc # ""
             THEN [exc |-> r.exc, net |-> NoNetwork]
             ELSE [exc |-> "",
                   net |-> [configuration |-> configuration,
                            resistors |-> resistors,
                            resistance |-> r.val]]

----------------------------------------------------------------------------
(* resistor_combinatorics.py: the value series and the catalog builder *)

\* The series literals, written in tenths: 1.5 is 15
E6 == <<10, 15, 22, 33, 47, 68>>
E12 == <<10, 12, 15, 18, 22, 27, 33, 39, 47, 56, 68, 82>>
E24 == <<10, 11, 12, 13, 15, 16, 18, 20, 22, 24, 27, 30,
         33, 36, 39, 43, 47, 51, 56, 62, 68, 75, 82, 91>>

RECURSIVE Pow10(_)
Pow10(k) == IF k <= 0 THEN 1 ELSE 10 * Pow10(k - 1)

\* round(x, 2) on an exact rational: to the nearest hundredth, ties to even
Round2(x) ==
    LET num == x[1] * 100
        q == num \div x[2]
        rem == num % x[2]
        n == IF 2 * rem > x[2] \/ (2 * rem = x[2] /\ q % 2 = 1) THEN q + 1 ELSE q
    IN  Rat(n, 100)

\* generate_resistor_values looping over range(order + 1)
generate_resistor_values_inclusive(series, order) ==
    IF order + 1 <= 0 THEN <<>>
    ELSE [i \in 1..((order + 1) * Len(series)) |->
            LET exp == (i - 1) \div Len(series)
                r == series[((i - 1) % Len(series)) + 1]
            IN  Round2(Rat(r * Pow10(exp), 10))] \o <<>>

\* range(order) is empty for order <= 0: the result is then the empty list
generate_resistor_values(series, order) ==
    IF order <= 0 THEN <<>>
    ELSE [i \in 1..(order * Len(series)) |->
            LET exp == (i - 1) \div Len(series)
                r == series[((i - 1) % Len(series)) + 1]
            IN  Round2(Rat(r * Pow10(exp), 10))] \o <<>>

\* itertools.product(range(n), repeat=3), as index triples in the order yielded
product3(n) ==
    [t \in 1..(n * n * n) |->
        <<((t - 1) \div (n * n)) + 1, (((t - 1) \div n) % n) + 1, ((t - 1) % n) + 1>>]

\* itertools.combinations(range(n), 3): no index repeated
combinations3(n) ==
    SelectSeq(product3(n) \o <<>>, LAMBDA ix : ix[1] < ix[2] /\ ix[2] < ix[3])

\* itertools.combinations_with_replacement(range(n), 3)
combinations_with_replacement3(n) ==
    SelectSeq(product3(n) \o <<>>, LAMBDA ix : ix[1] <= ix[2] /\ ix[2] <= ix[3])

\* itertools.combinations_with_replacement(range(n), 2)
combinations_with_replacement2(n) ==
    SelectSeq([t \in 1..(n * n) |-> <<((t - 1) \div n) + 1, ((t - 1) % n) + 1>>],
              LAMBDA ix : ix[1] <= ix[2])

\* Two networks per tuple, in the order the loop body builds them
TwoPer(tuples, first, second) ==
    [t \in 1..(2 * Len(tuples)) |->
        IF t % 2 = 1 THEN <<first, tuples[(t + 1) \div 2]>>
                     ELSE <<second, tuples[t \div 2]>>]

\* The (configuration, resistors) pairs apply_combinatorics constructs, in order
Candidates(V) ==
    LET n == Len(V)
        ix3 == combinations_with_replacement3(n)
        ixp == product3(n)
        ix2 == combinations_with_replacement2(n)
        triples == [t \in 1..Len(ix3) |-> <<V[ix3[t][1]], V[ix3[t][2]], V[ix3[t][3]]>>]
        tuples == [t \in 1..Len(ixp) |-> <<V[ixp[t][1]], V[ixp[t][2]], V[ixp[t][3]]>>]
        doubles == [t \in 1..Len(ix2) |-> <<V[ix2[t][1]], V[ix2[t][2]], Zero>>]
        singles == [t \in 1..n |-> <<SINGLE_SERIES, <<V[t], Zero, Zero>>>>]
    IN  TwoPer(triples, TRIPLE_SERIES, TRIPLE_PARALLEL)
        \o TwoPer(tuples, SINGLE_SERIES_DOUBLE_PARALLEL, DOUBLE_SERIES_SINGLE_PARALLEL)
        \o TwoPer(doubles, DOUBLE_SERIES, DOUBLE_PARALLEL)
        \o singles

\* A dict is the sequence of its <<key, value>> items in insertion order
DictKeys(d) == {d[i][1] : i \in DOMAIN d}
DictGet(d, key) == d[CHOOSE i \in DOMAIN d : d[i][1] = key][2]

\* d.setdefault(key, value): an existing entry is kept
DictSetKeepFirst(d, key, value) ==
    IF key \in DictKeys(d) THEN d ELSE Append(d, <<key, value>>)

\* d[key] = value: an existing entry is overwritten in place
DictSet(d, key, value) ==
    IF key \in DictKeys(d)
    THEN LET i == CHOOSE j \in DOMAIN d : d[j][1] = key
         IN  SubSeq(d, 1, i - 1) \o <<<<key, value>>>> \o SubSeq(d, i + 1, Len(d))
    ELSE Append(d, <<key, value>>)

\* One pass of a loop body: construct the network, then combos[resistance] = network.
\* An exception ends the build: nothing after it runs.
BuildOne(cand, acc) ==
    IF acc.exc # "" THEN acc
    ELSE LET made == ResistorNetwork(cand[1], cand[2])
         IN  IF made.exc # ""
             THEN [acc EXCEPT !.exc = made.exc]
             ELSE [exc |-> "",
                   combos |-> DictSet(acc.combos, made.net.resistance, made.net),
                   constructed |-> acc.constructed + 1]

\* The loop bodies for cands[lo..hi], run in order.  The range is split in
\* halves and each half's result is bound before it is used, so that the
\* evaluation stays shallow and nothing is computed twice.
RECURSIVE BuildRange(_, _, _, _)
BuildRange(cands, lo, hi, acc) ==
    IF lo > hi THEN acc
    ELSE IF lo = hi THEN BuildOne(cands[lo], acc)
    ELSE LET mid == (lo + hi) \div 2
         IN  CHOOSE done \in {BuildRange(cands, mid + 1, hi, left) :
                                left \in {BuildRange(cands, lo, mid, acc)}} : TRUE

apply_combinatorics(V) ==
    CHOOSE built \in
        {BuildRange(cands, 1, Len(cands), [exc |-> "", combos |-> <<>>, constructed |-> 0]) :
            cands \in {Candidates(V)}} : TRUE

RECURSIVE comb(_, _)
comb(n, k) == IF k = 0 THEN 1 ELSE IF n < k THEN 0 ELSE (comb(n - 1, k - 1) * n) \div k

predict_combinatorics_len(num_resistors) ==
    2 * comb(num_resistors + 3 - 1, 3)
    + 2 * comb(num_resistors + 2 - 1, 2)
    + num_resistors
    + 2 * num_resistors * num_resistors * num_resistors

----------------------------------------------------------------------------
(* binary64: the floats of the resistance codec.                           *)
(* A natural number is the sequence of its base-2^13 digits, least first,  *)
(* without leading zeros.  A double is <<M, e>> with 2^52 <= M < 2^53,     *)
(* standing for M * 2^e; zero is <<<<>>, 0>>.  A set with one element      *)
(* binds a value that is used more than once.                              *)

Base == 2 ^ 13

Limb(a, i) == IF i <= Len(a) THEN a[i] ELSE 0

RECURSIVE BigTrim(_)
BigTrim(a) ==
    IF a # <<>> /\ a[Len(a)] = 0 THEN BigTrim(SubSeq(a, 1, Len(a) - 1)) ELSE a

BigOfInt(n) == BigTrim(<<n % Base, (n \div Base) % Base, n \div (Base * Base)>>)

RECURSIVE BigToInt(_)
BigToInt(a) == IF a = <<>> THEN 0 ELSE a[1] + Base * BigToInt(Tail(a))

RECURSIVE BigAddFrom(_, _, _, _)
BigAddFrom(a, b, i, carry) ==
    IF i > Len(a) /\ i > Len(b)
    THEN IF carry = 0 THEN <<>> ELSE <<carry>>
    ELSE <<(Limb(a, i) + Limb(b, i) + carry) % Base>>
         \o BigAddFrom(a, b, i + 1, (Limb(a, i) + Limb(b, i) + carry) \div Base)

BigAdd(a, b) == BigAddFrom(a, b, 1, 0)

RECURSIVE BigSubFrom(_, _, _, _)
BigSubFrom(a, b, i, borrow) ==
    IF i > Len(a) THEN <<>>
    ELSE <<(a[i] - Limb(b, i) - borrow) % Base>>
         \o BigSubFrom(a, b, i + 1, IF a[i] - Limb(b, i) - borrow < 0 THEN 1 ELSE 0)

\* a - b for a >= b
BigSub(a, b) == BigTrim(BigSubFrom(a, b, 1, 0))

RECURSIVE BigMulFrom(_, _, _, _)
BigMulFrom(a, k, i, carry) ==
    IF i > Len(a) THEN BigOfInt(carry)
    ELSE <<(a[i] * k + carry) % Base>> \o BigMulFrom(a, k, i + 1, (a[i] * k + carry) \div Base)

\* a * k for 0 <= k < 2^17
BigMulSmall(a, k) == IF k = 0 THEN <<>> ELSE BigMulFrom(a, k, 1, 0)

RECURSIVE BigCmpFrom(_, _, _)
BigCmpFrom(a, b, i) ==
    IF i = 0 THEN 0
    ELSE IF a[i] < b[i] THEN -1
    ELSE IF a[i] > b[i] THEN 1
    ELSE BigCmpFrom(a, b, i - 1)

BigCmp(a, b) ==
    IF Len(a) < Len(b) THEN -1
    ELSE IF Len(a) > Len(b) THEN 1
    ELSE BigCmpFrom(a, b, Len(a))

\* a * 2^k
BigShl(a, k) ==
    IF a = <<>> THEN <<>>
    ELSE [i \in 1..(k \div 13) |-> 0] \o BigMulSmall(a, 2 ^ (k % 13))

BigPow2(k) == BigShl(<<1>>, k)

\* <<d + r div b, r mod b>> for r < b * 2^(j+1): the bits j..0 of the quotient digit
RECURSIVE BigDigit(_, _, _, _)
BigDigit(r, b, j, d) ==
    IF j < 0 THEN <<d, r>>
    ELSE IF BigCmp(r, BigShl(b, j)) >= 0
    THEN CHOOSE x \in {BigDigit(r2, b, j - 1, d + 2 ^ j) :
                          r2 \in {BigSub(r, BigShl(b, j))}} : TRUE
    ELSE BigDigit(r, b, j - 1, d)

\* <<a div b, a mod b>> for b > 0: long division, one base-2^13 digit a step
RECURSIVE BigDivMod(_, _)
BigDivMod(a, b) ==
    IF BigCmp(a, b) < 0 THEN <<<<>>, a>>
    ELSE CHOOSE x \in
        UNION {{<<BigTrim(<<dr[1]>> \o qr[1]), dr[2]>> : dr \in {BigDigit(qr[2], b, 12, 0)}} :
                  qr \in {BigDivMod(a, <<0>> \o b)}} : TRUE

\* a / b rounded to the nearest integer, ties to the even one
BigDivRound(a, b) ==
    CHOOSE n \in
        {IF BigCmp(BigMulSmall(qr[2], 2), b) > 0
            \/ (BigCmp(BigMulSmall(qr[2], 2), b) = 0 /\ Limb(qr[1], 1) % 2 = 1)
         THEN BigAdd(qr[1], <<1>>) ELSE qr[1] : qr \in {BigDivMod(a, b)}} : TRUE

\* Number of bits of a > 0
BigBitLen(a) ==
    13 * (Len(a) - 1) + (CHOOSE j \in 1..13 : 2 ^ (j - 1) <= a[Len(a)] /\ a[Len(a)] < 2 ^ j)

\* <<A * 2^k, B>> for k >= 0 and <<A, B * 2^-k>> for k < 0, with the k used
F64Shift(A, B, k) == IF k >= 0 THEN <<BigShl(A, k), B, k>> ELSE <<A, BigShl(B, -k), k>>

\* <<A', B', k>> with A'/B' = (A/B) * 2^k and 2^52 <= A'/B' < 2^53
F64Scale(A, B) ==
    CHOOSE s \in
        {IF BigCmp(t[1], BigShl(t[2], 53)) >= 0 THEN F64Shift(A, B, t[3] - 1) ELSE t :
            t \in {F64Shift(A, B, 53 - (BigBitLen(A) - BigBitLen(B)))}} : TRUE

F64Zero == <<<<>>, 0>>

\* <<m, e>> normalised: rounding up may have carried into bit 53
F64Pack(m, e) == IF m = BigPow2(53) THEN <<BigPow2(52), e + 1>> ELSE <<m, e>>

\* The double nearest to (A / B) * 2^e0, ties to even: IEEE-754 round-to-nearest
F64Round(A, B, e0) ==
    IF A = <<>> THEN F64Zero
    ELSE CHOOSE x \in
        UNION {{F64Pack(m, e0 - s[3]) : m \in {BigDivRound(s[1], s[2])}} :
                  s \in {F64Scale(A, B)}} : TRUE

\* int -> float, and the float a decimal literal or a correctly rounded
\* library result n/d stands for
F64OfInt(n) == CHOOSE r \in {F64Round(a, <<1>>, 0) : a \in {BigOfInt(n)}} : TRUE
F64OfRat(x) ==
    CHOOSE r \in {F64Round(a, b, 0) : a \in {BigOfInt(x[1])}, b \in {BigOfInt(x[2])}} : TRUE

\* x / y for floats x >= 0 and y > 0
F64Div(x, y) ==
    CHOOSE r \in {F64Round(a[1], b[1], a[2] - b[2]) : a \in {x}, b \in {y}} : TRUE

\* x * k for a float x >= 0 and an int 0 <= k < 2^17
F64MulInt(x, k) ==
    IF k = 0 THEN F64Zero
    ELSE CHOOSE r \in {F64Round(p, <<1>>, a[2]) :
                          p \in {BigMulSmall(a[1], k) : a \in {x}}, a \in {x}} : TRUE

\* int(x) for a float 0 <= x < 2^31: truncation
F64Trunc(x) ==
    CHOOSE n \in
        {IF a = F64Zero THEN 0
         ELSE IF a[2] >= 0 THEN BigToInt(BigShl(a[1], a[2]))
         ELSE BigToInt(BigDivMod(a[1], BigPow2(-a[2]))[1]) : a \in {x}} : TRUE

\* round(x, 2) for a float x >= 0: the exact value is rounded to hundredths,
\* ties to even, and the decimal is converted back correctly rounded
F64Round2(x) ==
    CHOOSE r \in
        {IF a = F64Zero \/ a[2] >= 0 THEN a
         ELSE CHOOSE q \in {F64Round(n, BigOfInt(100), 0) :
                               n \in {BigDivRound(BigMulSmall(a[1], 100), BigPow2(-a[2]))}} : TRUE :
            a \in {x}} : TRUE

----------------------------------------------------------------------------
(* ResistorNetwork.py: the resistance codec, on floats *)

\* A Python number: an int, or a float (a double)
PyInt(n) == [kind |-> "int", int |-> n, f64 |-> F64Zero]
PyFloat(x) == [kind |-> "float", int |-> 0, f64 |-> x]

\* The value of a Python number as a double (exact for the ints met here)
AsF64(y) == IF y.kind = "int" THEN F64OfInt(y.int) ELSE y.f64

\* a == b between Python numbers: by value, whatever the types
PyEq(a, b) == AsF64(a) = AsF64(b)

\* int(math.log10(x)) for x >= 1, from int(x): log10 is exact at the powers of
\* ten and far from an integer elsewhere on the two-digit grid
RECURSIVE IntLog10(_)
IntLog10(n) == IF n < 10 THEN 0 ELSE 1 + IntLog10(n \div 10)

\* 10 ** k as an operand of a float operation: the int 10^k for k >= 0, the
\* float pow(10.0, k) for k < 0
PowTen64(k) == IF k >= 0 THEN F64OfInt(Pow10(k)) ELSE F64OfRat(<<1, Pow10(-k)>>)

\* encode_resistance on the double x, for x = 0 or x >= 1
encode_resistance(resistance) ==
    CHOOSE pair \in
        {IF x = F64Zero THEN <<0, 0>>
         ELSE CHOOSE p \in {<<F64Trunc(F64Div(x, PowTen64(order - 1))), order>> :
                               order \in {IntLog10(F64Trunc(x))}} : TRUE :
            x \in {resistance}} : TRUE

\* decode_resistance: an int product for order >= 1, a float product below
decode_resistance(resistance, order) ==
    IF order - 1 >= 0 THEN PyInt(resistance * Pow10(order - 1))
    ELSE PyFloat(F64MulInt(PowTen64(order - 1), resistance))

\* The float round(r * 10 ** exp, 2) for the series literal r (in tenths)
GeneratedFloat(r, exp) == F64Round2(F64MulInt(F64OfRat(<<r, 10>>), Pow10(exp)))

\* The real number a Python number stands for, to the hundredth: an int
\* exactly, a float with the rounding error of its last operation dropped
RealOf(y) ==
    IF y.kind = "int" THEN <<y.int, 1>>
    ELSE IF y.f64 = F64Zero THEN Zero
    ELSE IF y.f64[2] >= 0 THEN <<BigToInt(BigShl(y.f64[1], y.f64[2])), 1>>
    ELSE Rat(BigToInt(BigDivRound(BigMulSmall(y.f64[1], 100), BigPow2(-y.f64[2]))), 100)

----------------------------------------------------------------------------
(* resistor_combinatorics.py: generate_database_files *)

\* The (series_name_full, series, order) of the six passes of the two loops
Configs ==
    <<[name |-> "e6o3", series |-> E6, order |-> 3],
      [name |-> "e6o6", series |-> E6, order |-> 6],
      [name |-> "e12o3", series |-> E12, order |-> 3],
      [name |-> "e12o6", series |-> E12, order |-> 6],
      [name |-> "e24o3", series |-> E24, order |-> 3],
      [name |-> "e24o6", series |-> E24, order |-> 6]>>

\* The catalogs are built in reduced size: from the first SeriesPrefix
\* literals of a series, over one decade for every three of the code's.
ModelSeries(series) == SubSeq(series, 1, SeriesPrefix)
ModelDecades(order) == order \div 3

\* CREATE TABLE IF NOT EXISTS in place of the two statements
CreateIfMissing(rows) == rows

\* DROP TABLE IF EXISTS resistor_networks, then CREATE TABLE
DropAndCreate(rows) == <<>>

\* encode_resistance of each value of the list, in the list's order
Codes(V) == [i \in DOMAIN V |-> encode_resistance(F64OfRat(V[i]))] \o <<>>

\* encode_resistance of a resistor slot: a value of the list, or the padding 0
CodeOf(V, codes, r) ==
    IF r = Zero THEN encode_resistance(F64Zero)
    ELSE codes[CHOOSE i \in DOMAIN V : V[i] = r]

\* The rows the inner loop inserts: one per item of the catalog, in dict order
InsertedRows(series_name_full, V, catalog, codes) ==
    [i \in DOMAIN catalog |->
        LET resistance == catalog[i][1]
            net == catalog[i][2]
            c1 == CodeOf(V, codes, net.resistors[1])
            c2 == CodeOf(V, codes, net.resistors[2])
            c3 == CodeOf(V, codes, net.resistors[3])
        IN  <<resistance, series_name_full, net.configuration,
              c1[1], c1[2], c2[1], c2[2], c3[1], c3[2]>>] \o <<>>

\* sorted(combos.keys())
SortedKeys(catalog) ==
    SortSeq([i \in DOMAIN catalog |-> catalog[i][1]] \o <<>>, RatLess)

----------------------------------------------------------------------------
(* ResistorNetworkDatabaseManager.py and resistor_network_server.py: the query *)

CatalogNames == {"e6o3", "e6o6", "e12o3", "e12o6", "e24o3", "e24o6"}

InvalidSeries == "ValueError: Invalid series name"
NotFound == "ValueError: No results"

Outcome(exc, nearest_resistance, net) ==
    [exc |-> exc, selected |-> nearest_resistance, net |-> net]

\* np.searchsorted(a, v), side='left': the first 0-based index whose element is >= v
RECURSIVE bisect_left(_, _, _, _)
bisect_left(a, v, lo, hi) ==
    IF lo >= hi THEN lo
    ELSE LET mid == (lo + hi) \div 2
         IN  IF RatLess(a[mid + 1], v) THEN bisect_left(a, v, mid + 1, hi)
             ELSE bisect_left(a, v, lo, mid)

searchsorted(a, v) == bisect_left(a, v, 0, Len(a))

\* a[i] on an array: 0-based, negative indices count from the end, and an
\* index outside -len..len-1 raises IndexError
Subscript(a, i) ==
    IF i >= Len(a) \/ i < -Len(a) THEN Raise("IndexError")
    ELSE IF i < 0 THEN Ok(a[Len(a) + i + 1])
    ELSE Ok(a[i + 1])

\* min(x, y, key=lambda v: abs(resistance - v)): the first of the smallest
MinByDistance(x, y, resistance) ==
    IF RatLeq(RatAbs(RatSub(resistance, x)), RatAbs(RatSub(resistance, y))) THEN x ELSE y

\* The search of nearest_network: the insertion point, then the choice
\* between the element at it and the element after it
NearestResistance(chosen_series, resistance) ==
    LET left_idx == searchsorted(chosen_series, resistance)
    IN  IF left_idx = Len(chosen_series) THEN Subscript(chosen_series, -1)
        ELSE LET x == Subscript(chosen_series, left_idx)
                 y == Subscript(chosen_series, left_idx + 1)
             IN  IF x.exc # "" THEN x
                 ELSE IF y.exc # "" THEN y
                 ELSE Ok(MinByDistance(x.val, y.val, resistance))

\* bool(result) of the cursor conn.execute returns: sqlite3.Cursor defines
\* neither __bool__ nor __len__, so the object is true whatever it holds
CursorTruth(hits) == TRUE

\* The rows SELECT ... WHERE resistance = ? AND series = ? matches, by rowid
Select(rows, resistance, series) ==
    {i \in DOMAIN rows : rows[i][1] = resistance /\ rows[i][2] = series}

\* Lines 38-41: unpack fetchone(), then build the network from the row
NetworkOfRow(row, nearest_resistance) ==
    IF row[3] \notin ResistorNetworkType
    THEN Outcome("ValueError", nearest_resistance, NoNetwork)
    ELSE LET made == ResistorNetwork(row[3],
                         <<RealOf(decode_resistance(row[4], row[5])),
                           RealOf(decode_resistance(row[6], row[7])),
                           RealOf(decode_resistance(row[8], row[9]))>>)
         IN  Outcome(made.exc, nearest_resistance, made.net)

\* Lines 34-41, with LIMIT 1 taking the first match; fetchone() of an empty
\* result is None, and unpacking None raises TypeError
Lookup(rows, nearest_resistance, series_name) ==
    LET hits == Select(rows, nearest_resistance, series_name)
    IN  IF ~CursorTruth(hits) THEN Outcome(NotFound, nearest_resistance, NoNetwork)
        ELSE IF hits = {} THEN Outcome("TypeError", nearest_resistance, NoNetwork)
        ELSE NetworkOfRow(rows[CHOOSE i \in hits : \A j \in hits : i <= j], nearest_resistance)

\* nearest_network without the check of series_name: the dict lookup raises
nearest_network_unguarded(available, rows, resistance, series_name) ==
    IF series_name \notin DOMAIN available
    THEN Outcome("KeyError", None, NoNetwork)
    ELSE LET nearest == NearestResistance(available[series_name], resistance)
         IN  IF nearest.exc # "" THEN Outcome(nearest.exc, None, NoNetwork)
             ELSE Lookup(rows, nearest.val, series_name)

\* ResistorNetworkDatabaseManager.nearest_network
nearest_network(available, rows, resistance, series_name) ==
    IF series_name \notin DOMAIN available
    THEN Outcome(InvalidSeries, None, NoNetwork)
    ELSE LET nearest == NearestResistance(available[series_name], resistance)
         IN  IF nearest.exc # "" THEN Outcome(nearest.exc, None, NoNetwork)
             ELSE Lookup(rows, nearest.val, series_name)

\* min(resistor_values, key=lambda x: abs(x - target)) over a non-empty
\* sequence: the first element at the smallest distance
find_nearest_value_naive(values, target) ==
    values[CHOOSE i \in DOMAIN values :
        /\ \A j \in DOMAIN values :
              RatLeq(RatAbs(RatSub(values[i], target)),
                     RatAbs(RatSub(values[j], target)))
        /\ \A j \in 1..(i - 1) :
              RatLess(RatAbs(RatSub(values[i], target)),
                      RatAbs(RatSub(values[j], target)))]

\* ResistorCalc.nearest_network over the loaded dicts; min() of an empty
\* dict raises ValueError
naive_nearest_network(loaded, resistance, series_name) ==
    IF series_name \notin DOMAIN loaded
    THEN Outcome(InvalidSeries, None, NoNetwork)
    ELSE LET catalog == loaded[series_name]
         IN  IF catalog = <<>> THEN Outcome("ValueError", None, NoNetwork)
             ELSE LET key == find_nearest_value_naive(
                                [i \in DOMAIN catalog |-> catalog[i][1]], resistance)
                  IN  Outcome("", key, DictGet(catalog, key))

----------------------------------------------------------------------------
(* ResistorNetwork.py: the 11-byte record; resistor_combinatorics.py and *)
(* resistor_network_server.py: the catalog file written and loaded       *)

\* The 'f' field of struct.pack: the double rounded to the nearest float32,
\* ties to even, as <<mantissa, exponent>> with 2^23 <= mantissa < 2^24
Float32(x) ==
    IF x = F64Zero THEN <<0, 0>>
    ELSE CHOOSE f \in
            {IF m = 16777216 THEN <<8388608, x[2] + 30>> ELSE <<m, x[2] + 29>> :
                m \in {BigToInt(BigDivRound(x[1], BigPow2(29)))}} : TRUE

\* struct.pack("@fBBBBBBB", ...): None is not a float, and a B field takes 0..255
pack(resistance, configuration, c1, c2, c3) ==
    IF resistance = None
       \/ \E b \in {configuration, c1[1], c1[2], c2[1], c2[2], c3[1], c3[2]} : b \notin 0..255
    THEN [exc |-> "struct.error", record |-> <<>>]
    ELSE [exc |-> "",
          record |-> <<Float32(F64OfRat(resistance)), configuration,
                       c1[1], c1[2], c2[1], c2[2], c3[1], c3[2]>>]

\* encode_resistance of a resistor slot: the padding 0, or a value
SlotCode(r) ==
    IF r = Zero THEN encode_resistance(F64Zero) ELSE encode_resistance(F64OfRat(r))

\* encode_resistance of each of a set of slot values, evaluated once per value
SlotCodes(values) == {<<r, SlotCode(r)>> : r \in values}
CodeIn(codes, r) == (CHOOSE p \in codes : p[1] = r)[2]

\* The body of encode, given the encode_resistance of its three slots
encode_with(net, codes) ==
    pack(net.resistance, net.configuration,
         CodeIn(codes, net.resistors[1]),
         CodeIn(codes, net.resistors[2]),
         CodeIn(codes, net.resistors[3]))

\* ResistorNetwork.encode
encode(net) ==
    CHOOSE out \in
        {encode_with(net, codes) :
            codes \in {SlotCodes({net.resistors[i] : i \in 1..3})}} : TRUE

\* ResistorNetwork.decode: the stored resistance is unpacked and not used
decode(record) ==
    IF record[2] \notin ResistorNetworkType
    THEN [exc |-> "ValueError", net |-> NoNetwork]
    ELSE CHOOSE made \in
            {ResistorNetwork(record[2], resistors) :
                resistors \in {<<RealOf(decode_resistance(record[3], record[4])),
                                 RealOf(decode_resistance(record[5], record[6])),
                                 RealOf(decode_resistance(record[7], record[8]))>>}} : TRUE

\* save_combos: network.encode() of every value of the dict, in dict order
save_combos(catalog) ==
    CHOOSE out \in
        {[exc |-> IF \E i \in DOMAIN packed : packed[i].exc # "" THEN "struct.error" ELSE "",
          file |-> [i \in DOMAIN packed |-> packed[i].record] \o <<>>] :
            packed \in
                UNION {{[i \in DOMAIN catalog |-> encode_with(catalog[i][2], codes)] \o <<>>} :
                    codes \in {SlotCodes(UNION {{catalog[i][2].resistors[k] : k \in 1..3} :
                                                    i \in DOMAIN catalog})}}} : TRUE

\* One pass of the loop of _load: decode a record, then d.update
LoadOne(record, acc) ==
    IF acc.exc # "" THEN acc
    ELSE CHOOSE next \in
            {IF made.exc # "" THEN [acc EXCEPT !.exc = made.exc]
             ELSE [exc |-> "", d |-> DictSet(acc.d, made.net.resistance, made.net)] :
                made \in {decode(record)}} : TRUE

\* The passes for file[lo..hi], in order, split in halves as in BuildRange
RECURSIVE LoadRange(_, _, _, _)
LoadRange(file, lo, hi, acc) ==
    IF lo > hi THEN acc
    ELSE IF lo = hi THEN LoadOne(file[lo], acc)
    ELSE LET mid == (lo + hi) \div 2
         IN  CHOOSE done \in {LoadRange(file, mid + 1, hi, left) :
                                left \in {LoadRange(file, lo, mid, acc)}} : TRUE

\* ResistorCalc._load
load(file) == LoadRange(file, 1, Len(file), [exc |-> "", d |-> <<>>])

----------------------------------------------------------------------------
(* Scenarios.  Each starts with the parts it does not use at rest. *)

Whole(k) == <<k, 1>>

NoCatalogs == [name \in CatalogNames |-> <<>>]

CallIdle == args = <<>> /\ raised = "" /\ network = NoNetwork
BuilderIdle == resistor_values = <<>> /\ combos = <<>> /\ constructed = 0
CodecIdle == held = F64Zero /\ encoded = <<0, 0>> /\ decoded = PyInt(0)
DbIdle == table = <<>> /\ txt = NoCatalogs /\ step = 0
QueryIdle == available_resistances = NoCatalogs /\ networks = NoCatalogs /\ selected = None
RecordIdle == data = <<>>

(* The topology calculator: construct a network from a tag and a tuple *)

ResistorTuples ==
    {<<Whole(a), Whole(b), Whole(c)>> : a, b, c \in 0..MaxVal}
    \cup {<<Whole(a), Whole(b)>> : a, b \in 0..MaxVal}

InitNetwork ==
    pc = "idle" /\ CallIdle /\ BuilderIdle /\ CodecIdle /\ DbIdle /\ QueryIdle /\ RecordIdle

Construct ==
    /\ pc \in {"idle", "constructed"}
    /\ \E configuration \in ResistorNetworkType, resistors \in ResistorTuples :
          \E made \in {ResistorNetwork(configuration, resistors)} :
             /\ pc' = "constructed"
             /\ args' = [configuration |-> configuration, resistors |-> resistors]
             /\ raised' = made.exc
             /\ network' = made.net
    /\ UNCHANGED <<recordVars, builderVars, codecVars, dbVars, queryVars>>

SpecNetwork == InitNetwork /\ [][Construct]_vars

(* The catalog builder: apply_combinatorics over a value sequence *)

SeqsUpTo(S, n) == UNION {[1..k -> S] : k \in 0..n}

InitBuild ==
    /\ pc = "values"
    /\ resistor_values \in
          {[i \in DOMAIN q |-> Whole(q[i])] \o <<>> : q \in SeqsUpTo(1..MaxVal, MaxLen)}
          \cup {generate_resistor_values(E6, 1)}
    /\ combos = <<>> /\ constructed = 0
    /\ CallIdle /\ CodecIdle /\ DbIdle /\ QueryIdle /\ RecordIdle

ApplyCombinatorics ==
    /\ pc = "values"
    /\ \E built \in {apply_combinatorics(resistor_values)} :
          /\ pc' = "built"
          /\ combos' = built.combos
          /\ constructed' = built.constructed
          /\ raised' = built.exc
    /\ UNCHANGED <<recordVars, args, network, resistor_values, codecVars, dbVars, queryVars>>

SpecBuild == InitBuild /\ [][ApplyCombinatorics]_vars

(* The value series and the codec: generate a list, encode a value, decode it *)

Series(name) == IF name = "E6" THEN E6 ELSE IF name = "E12" THEN E12 ELSE E24

\* Decade counts: the two configured ones, and two below 1
OrderInputs == {-1, 0, 3, 6}

InitCodec ==
    pc = "idle" /\ CallIdle /\ BuilderIdle /\ CodecIdle /\ DbIdle /\ QueryIdle /\ RecordIdle

GenerateResistorValues ==
    /\ pc = "idle"
    /\ \E name \in {"E6", "E12", "E24"}, order \in OrderInputs :
          /\ resistor_values' = generate_resistor_values(Series(name), order)
          /\ args' = [series |-> name, order |-> order, index |-> 0]
    /\ pc' = "generated"
    /\ UNCHANGED <<recordVars, raised, network, combos, constructed, codecVars, dbVars, queryVars>>

\* encode_resistance of the float at one index of the generated list
EncodeResistance ==
    /\ pc = "generated"
    /\ \E i \in DOMAIN resistor_values :
          \E x \in {GeneratedFloat(Series(args.series)[((i - 1) % Len(Series(args.series))) + 1],
                                   (i - 1) \div Len(Series(args.series)))} :
             /\ held' = x
             /\ encoded' = encode_resistance(x)
             /\ args' = [args EXCEPT !.index = i]
    /\ pc' = "encoded"
    /\ UNCHANGED <<recordVars, raised, network, builderVars, decoded, dbVars, queryVars>>

\* encode_resistance of the padding value 0
EncodeZero ==
    /\ pc = "generated"
    /\ held' = F64Zero
    /\ encoded' = encode_resistance(F64Zero)
    /\ pc' = "encoded"
    /\ UNCHANGED <<recordVars, callVars, builderVars, decoded, dbVars, queryVars>>

DecodeResistance ==
    /\ pc = "encoded"
    /\ decoded' = decode_resistance(encoded[1], encoded[2])
    /\ pc' = "decoded"
    /\ UNCHANGED <<recordVars, callVars, builderVars, held, encoded, dbVars, queryVars>>

NextCodec ==
    \/ GenerateResistorValues
    \/ EncodeResistance
    \/ EncodeZero
    \/ DecodeResistance

SpecCodec == InitCodec /\ [][NextCodec]_vars

(* The database generator: generate_database_files, pass by pass *)

\* A row left in the table by an earlier run
StaleRow(name, k) == <<Whole(k), name, SINGLE_SERIES, 10 * k, 0, 0, 0, 0, 0>>

StaleRows == <<StaleRow("e6o3", 1), StaleRow("e6o3", 7), StaleRow("e24o6", 1), StaleRow("e6o6", 9)>>

\* The tables an earlier run can have left: any of the stale rows, in order
StaleTables ==
    {SelectSeq([i \in DOMAIN StaleRows |-> <<i, StaleRows[i]>>] \o <<>>,
               LAMBDA r : r[1] \in kept) : kept \in SUBSET DOMAIN StaleRows}

InitDb ==
    /\ pc = "db_idle"
    /\ \E old \in StaleTables :
          /\ table = [i \in DOMAIN old |-> old[i][2]] \o <<>>
          /\ args = [stale |-> Len(old)]
    /\ txt \in {NoCatalogs, [name \in CatalogNames |-> <<Whole(7), Whole(1)>>]}
    /\ step = 0
    /\ raised = "" /\ network = NoNetwork
    /\ BuilderIdle /\ CodecIdle /\ QueryIdle /\ RecordIdle

\* connect, DROP TABLE IF EXISTS, CREATE TABLE
DbBegin ==
    /\ pc = "db_idle"
    /\ table' = DropAndCreate(table)
    /\ step' = 1
    /\ pc' = "db_rows"
    /\ UNCHANGED <<recordVars, callVars, builderVars, codecVars, txt, queryVars>>

\* One pass of the loops up to the INSERTs: the list, the catalog, its rows
DbInsertCatalog ==
    /\ pc = "db_rows"
    /\ \E V \in {generate_resistor_values(ModelSeries(Configs[step].series),
                                          ModelDecades(Configs[step].order))} :
          \E built \in {apply_combinatorics(V)} :
             \E codes \in {Codes(V)} :
                /\ resistor_values' = V
                /\ combos' = built.combos
                /\ constructed' = built.constructed
                /\ raised' = built.exc
                /\ table' = IF built.exc # "" THEN table
                            ELSE table \o InsertedRows(Configs[step].name, V, built.combos, codes)
                /\ pc' = IF built.exc # "" THEN "db_failed" ELSE "db_txt"
    /\ UNCHANGED <<recordVars, args, network, codecVars, txt, step, queryVars>>

\* The rest of the pass: the sorted keys written to <series_name_full>.txt
DbWriteTxt ==
    /\ pc = "db_txt"
    /\ txt' = [txt EXCEPT ![Configs[step].name] = SortedKeys(combos)]
    /\ step' = step + 1
    /\ pc' = IF step = Len(Configs) THEN "db_commit" ELSE "db_rows"
    /\ UNCHANGED <<recordVars, callVars, builderVars, codecVars, table, queryVars>>

\* conn.commit()
DbCommit ==
    /\ pc = "db_commit"
    /\ pc' = "db_done"
    /\ UNCHANGED <<recordVars, callVars, builderVars, codecVars, dbVars, queryVars>>

NextDb ==
    \/ DbBegin
    \/ DbInsertCatalog
    \/ DbWriteTxt
    \/ DbCommit

SpecDb == InitDb /\ [][NextDb]_vars

(* The query: nearest_network over loaded arrays and a stored table *)

\* The array and the targets of the documented example
ExampleArray == <<Whole(1), <<11, 5>>, <<47, 10>>, Whole(10)>>
ExampleTargets == {Whole(3), <<1, 2>>, Whole(15), <<47, 10>>}

\* The ascending array of the keys 10 * k, k in S
RECURSIVE ArrayOf(_)
ArrayOf(S) ==
    IF S = {} THEN <<>>
    ELSE LET top == CHOOSE k \in S : \A j \in S : j <= k
         IN  Append(ArrayOf(S \ {top}), Whole(10 * top))

\* The keys the array of a catalog can hold
KeySeq(name) == IF name = "e6o3" THEN ExampleArray ELSE ArrayOf(1..MaxKey)

\* Every key, and the code of each
AllKeys == ExampleArray \o ArrayOf(2..MaxKey)
KeyCodes == Codes(AllKeys)

\* The row of the single-resistor network of one key
KeyRow(name, key) ==
    CHOOSE row \in
        {<<key, name, SINGLE_SERIES, code[1], code[2], 0, 0, 0, 0>> :
            code \in {CodeOf(AllKeys, KeyCodes, key)}} : TRUE

\* A row per key of a catalog, and the table of all of them, catalog by catalog
RowsFor(name) == [i \in DOMAIN KeySeq(name) |-> KeyRow(name, KeySeq(name)[i])] \o <<>>

FullTable ==
    RowsFor("e6o3") \o RowsFor("e6o6") \o RowsFor("e12o3")
    \o RowsFor("e12o6") \o RowsFor("e24o3") \o RowsFor("e24o6")

\* The (catalog, key) whose row the table may lack
Droppable ==
    {<<"e6o3", Whole(1)>>, <<"e6o3", Whole(10)>>}
    \cup {<<"e6o6", Whole(10 * k)>> : k \in 1..MaxKey}

\* The dict ResistorCalc._load builds from a file holding the single-resistor
\* network of each key, highest key first
LoadedDict(keys) ==
    [i \in DOMAIN keys |->
        <<keys[Len(keys) + 1 - i],
          ResistorNetwork(SINGLE_SERIES, <<keys[Len(keys) + 1 - i], Zero, Zero>>).net>>] \o <<>>

Targets == {Whole(5 * j) : j \in 0..(2 * MaxKey + 2)} \cup ExampleTargets
SeriesInputs == CatalogNames \cup {"e48o3", "E6O3"}

InitQuery ==
    /\ pc = "ready"
    /\ \E S \in SUBSET (1..MaxKey) :
          /\ available_resistances =
                [name \in CatalogNames |-> IF name = "e6o3" THEN ExampleArray ELSE ArrayOf(S)]
          /\ networks =
                [name \in CatalogNames |->
                    IF name = "e6o3" THEN LoadedDict(ExampleArray) ELSE LoadedDict(ArrayOf(S))]
    /\ \E gone \in SUBSET Droppable :
          /\ Cardinality(gone) <= 1
          /\ table = SelectSeq(FullTable, LAMBDA row : <<row[2], row[1]>> \notin gone)
    /\ selected = None
    /\ txt = NoCatalogs /\ step = 0
    /\ CallIdle /\ BuilderIdle /\ CodecIdle /\ RecordIdle

\* ResistorNetworkDatabaseManager.nearest_network
NearestNetwork ==
    /\ pc = "ready"
    /\ \E resistance \in Targets, series_name \in SeriesInputs :
          \E out \in {nearest_network(available_resistances, table, resistance, series_name)} :
             /\ args' = [via |-> "database", resistance |-> resistance,
                         series_name |-> series_name]
             /\ raised' = out.exc
             /\ selected' = out.selected
             /\ network' = out.net
    /\ pc' = "queried"
    /\ UNCHANGED <<recordVars, builderVars, codecVars, dbVars, available_resistances, networks>>

\* ResistorCalc.nearest_network
NaiveNearestNetwork ==
    /\ pc = "ready"
    /\ \E resistance \in Targets, series_name \in SeriesInputs :
          \E out \in {naive_nearest_network(networks, resistance, series_name)} :
             /\ args' = [via |-> "server", resistance |-> resistance,
                         series_name |-> series_name]
             /\ raised' = out.exc
             /\ selected' = out.selected
             /\ network' = out.net
    /\ pc' = "queried"
    /\ UNCHANGED <<recordVars, builderVars, codecVars, dbVars, available_resistances, networks>>

NextQuery ==
    \/ NearestNetwork
    \/ NaiveNearestNetwork

SpecQuery == InitQuery /\ [][NextQuery]_vars

(* The records: construct, encode and decode a network; write and load a file *)

\* A file from elsewhere: one record with any tag byte up to 8, slot codes
\* of 0, 1.0 or 20, and a resistance field of 0.0
ForeignCodes == {<<0, 0>>, <<10, 0>>, <<20, 1>>}
ForeignFiles ==
    {<< <<Float32(F64Zero), tag, c1[1], c1[2], c2[1], c2[2], c3[1], c3[2]>> >> :
        tag \in 0..8, c1 \in ForeignCodes, c2 \in ForeignCodes, c3 \in ForeignCodes}

\* The tuples of the networks constructed before a record is made
RecordTuples == {<<Whole(a), Whole(b), Whole(c)>> : a, b, c \in 0..MaxSlot}

\* Nothing constructed yet, or one network constructed by ResistorNetwork(...)
InitRecord ==
    /\ \/ pc = "idle" /\ CallIdle
       \/ \E configuration \in ResistorNetworkType, resistors \in RecordTuples :
             \E made \in {ResistorNetwork(configuration, resistors)} :
                /\ pc = "constructed"
                /\ args = [configuration |-> configuration, resistors |-> resistors]
                /\ raised = made.exc
                /\ network = made.net
    /\ BuilderIdle /\ CodecIdle /\ DbIdle /\ QueryIdle /\ RecordIdle

\* network.encode() of the network last constructed or decoded
Encode ==
    /\ pc \in {"constructed", "decoded"}
    /\ network # NoNetwork
    /\ \E out \in {encode(network)} :
          /\ raised' = out.exc
          /\ data' = IF out.exc # "" THEN data ELSE <<out.record>>
    /\ pc' = "encoded"
    /\ UNCHANGED <<args, network, builderVars, codecVars, dbVars, queryVars>>

\* ResistorNetwork.decode of the record just encoded
Decode ==
    /\ pc = "encoded"
    /\ raised = ""
    /\ \E made \in {decode(data[1])} :
          /\ raised' = made.exc
          /\ network' = made.net
    /\ pc' = "decoded"
    /\ UNCHANGED <<args, builderVars, codecVars, dbVars, queryVars, recordVars>>

\* One pass of generate_binaries: the list, the catalog, the file
GenerateBinary ==
    /\ pc = "idle"
    /\ \E k \in DOMAIN Configs :
          \E V \in {generate_resistor_values(ModelSeries(Configs[k].series),
                                             ModelDecades(Configs[k].order))} :
             \E built \in {apply_combinatorics(V)} :
                \E out \in {save_combos(built.combos)} :
                   /\ args' = [name |-> Configs[k].name]
                   /\ resistor_values' = V
                   /\ combos' = built.combos
                   /\ constructed' = built.constructed
                   /\ raised' = IF built.exc # "" THEN built.exc ELSE out.exc
                   /\ data' = IF built.exc # "" \/ out.exc # "" THEN data ELSE out.file
    /\ pc' = "saved"
    /\ UNCHANGED <<network, codecVars, dbVars, queryVars>>

\* A catalog file that this program did not write
ForeignFile ==
    /\ pc = "idle"
    /\ \E file \in ForeignFiles, name \in {"e6o3"} :
          /\ args' = [name |-> name]
          /\ data' = file
    /\ pc' = "saved"
    /\ UNCHANGED <<raised, network, builderVars, codecVars, dbVars, queryVars>>

\* self.networks[name] = self._load(name + ".bin")
Load ==
    /\ pc = "saved"
    /\ raised = ""
    /\ \E out \in {load(data)} :
          /\ raised' = out.exc
          /\ networks' = IF out.exc # "" THEN networks
                         ELSE [networks EXCEPT ![args.name] = out.d]
    /\ pc' = "loaded"
    /\ UNCHANGED <<args, network, builderVars, codecVars, dbVars,
                   available_resistances, selected, recordVars>>

NextRecord ==
    \/ Encode
    \/ Decode
    \/ GenerateBinary
    \/ ForeignFile
    \/ Load

SpecRecord == InitRecord /\ [][NextRecord]_vars

----------------------------------------------------------------------------
(* Properties of the topology calculator *)

\* The non-zero precondition of the parallel terms of a topology
ParallelTermsNonZero(configuration, a, b, c) ==
    /\ configuration = DOUBLE_PARALLEL => a # 0 /\ b # 0
    /\ configuration = TRIPLE_PARALLEL => a # 0 /\ b # 0 /\ c # 0
    /\ configuration = SINGLE_SERIES_DOUBLE_PARALLEL => b # 0 /\ c # 0
    /\ configuration = DOUBLE_SERIES_SINGLE_PARALLEL => a + b # 0 /\ c # 0

\* The closed form of each topology's formula over whole ohms a, b, c
ClosedForm(configuration, a, b, c) ==
    IF configuration \in {SINGLE_SERIES, DOUBLE_SERIES, TRIPLE_SERIES} THEN Rat(a + b + c, 1)
    ELSE IF configuration = DOUBLE_PARALLEL THEN Rat(a * b, a + b)
    ELSE IF configuration = TRIPLE_PARALLEL THEN Rat(a * b * c, a * b + a * c + b * c)
    ELSE IF configuration = SINGLE_SERIES_DOUBLE_PARALLEL THEN Rat(a * (b + c) + b * c, b + c)
    ELSE Rat((a + b) * c, a + b + c)

Constructed(configuration, a, b, c) ==
    /\ pc = "constructed"
    /\ args = [configuration |-> configuration,
               resistors |-> <<Whole(a), Whole(b), Whole(c)>>]

\* C6: for each of the seven topologies with a formula and every triple of
\* resistor values whose parallel terms are non-zero, the constructed network's
\* resistance is the topology's formula:  r1+r2+r3 for the series tags,
\* 1/(1/r1+1/r2) for double parallel (third slot ignored), 1/(1/r1+1/r2+1/r3)
\* for triple parallel, r1 + 1/(1/r2+1/r3) for series-then-double-parallel and
\* 1/(1/(r1+r2)+1/r3) for double-series-then-parallel; and the five literal
\* cases give 6, 2, 2, 1 and 2/3.
FormulaCorrect ==
    /\ \A configuration \in ResistorNetworkType \ {SINGLE_PARALLEL}, a, b, c \in 0..MaxVal :
          (Constructed(configuration, a, b, c) /\ ParallelTermsNonZero(configuration, a, b, c))
          => /\ raised = ""
             /\ network.configuration = configuration
             /\ network.resistors = <<Whole(a), Whole(b), Whole(c)>>
             /\ network.resistance = ClosedForm(configuration, a, b, c)
    /\ Constructed(TRIPLE_SERIES, 1, 2, 3) => network.resistance = <<6, 1>>
    /\ Constructed(DOUBLE_PARALLEL, 4, 4, 0) => network.resistance = <<2, 1>>
    /\ Constructed(SINGLE_SERIES_DOUBLE_PARALLEL, 1, 2, 2) => network.resistance = <<2, 1>>
    /\ Constructed(DOUBLE_SERIES_SINGLE_PARALLEL, 1, 1, 2) => network.resistance = <<1, 1>>
    /\ Constructed(TRIPLE_PARALLEL, 2, 2, 2) => network.resistance = <<2, 3>>

FormulaCorrectWitness ==
    /\ Constructed(SINGLE_SERIES_DOUBLE_PARALLEL, 1, 2, 3)
    /\ raised = ""
    /\ network.resistance = <<11, 5>>

----------------------------------------------------------------------------
(* Properties of the catalog builder *)

NumResistors(resistors) == Cardinality({i \in 1..3 : resistors[i] # Zero})

\* For every candidate the builder enumerates: its resistance and its resistor count
CandidateResistances(cands) ==
    [i \in DOMAIN cands |->
        <<calculate_resistance(cands[i][1], cands[i][2]).val, NumResistors(cands[i][2])>>] \o <<>>

Built == pc = "built" /\ raised = ""

\* C2: after apply_combinatorics over positive values, every enumerated
\* candidate's resistance is a key of the catalog, every entry is one of the
\* candidates with exactly the entry's key as resistance, and no candidate
\* with that resistance uses fewer resistors than the entry; in particular a
\* value v of V that is also the resistance of a two- or three-resistor
\* candidate is held as single-series (v, 0, 0).
FewestResistorsWin ==
    Built =>
      \A cands \in {Candidates(resistor_values)} :
        \A cr \in {CandidateResistances(cands)} :
          /\ \A i \in DOMAIN cr :
                /\ cr[i][1] \in DictKeys(combos)
                /\ NumResistors(DictGet(combos, cr[i][1]).resistors) <= cr[i][2]
          /\ \A j \in DOMAIN combos :
                /\ combos[j][2].resistance = combos[j][1]
                /\ \E i \in DOMAIN cands :
                      /\ cands[i] = <<combos[j][2].configuration, combos[j][2].resistors>>
                      /\ cr[i][1] = combos[j][1]
          /\ \A k \in DOMAIN resistor_values :
                LET entry == DictGet(combos, resistor_values[k])
                IN  /\ entry.configuration = SINGLE_SERIES
                    /\ entry.resistors = <<resistor_values[k], Zero, Zero>>

\* A value of V that a multi-resistor candidate also reaches is held as a single
FewestResistorsWinWitness ==
    /\ Built
    /\ \E k \in DOMAIN resistor_values :
          /\ \E i \in DOMAIN Candidates(resistor_values) :
                LET cand == Candidates(resistor_values)[i]
                IN  /\ NumResistors(cand[2]) = 3
                    /\ calculate_resistance(cand[1], cand[2]).val = resistor_values[k]
          /\ DictGet(combos, resistor_values[k]).configuration = SINGLE_SERIES

\* C7: for n >= 1 values the number of networks apply_combinatorics constructs
\* is predict_combinatorics_len(n) = 2*C(n+2,3) + 2*n^3 + 2*C(n+1,2) + n,
\* and the catalog never holds more entries than that.
ConstructedCountPredicted ==
    (Built /\ Len(resistor_values) >= 1)
    => LET n == Len(resistor_values)
       IN  /\ constructed = predict_combinatorics_len(n)
           /\ constructed = 2 * comb(n + 2, 3) + 2 * n * n * n + 2 * comb(n + 1, 2) + n
           /\ Len(combos) <= constructed

\* One decade of E6: 2*C(8,3) + 2*6^3 + 2*C(7,2) + 6 = 592 networks built
ConstructedCountPredictedWitness ==
    /\ Built
    /\ Len(resistor_values) = 6
    /\ constructed = 592
    /\ Len(combos) < constructed

\* The slots of a tuple that enter a reciprocal of the topology's formula
ParallelSlots(configuration) ==
    IF configuration = TRIPLE_PARALLEL THEN {1, 2, 3}
    ELSE IF configuration = DOUBLE_PARALLEL THEN {1, 2}
    ELSE IF configuration = SINGLE_SERIES_DOUBLE_PARALLEL THEN {2, 3}
    ELSE IF configuration = DOUBLE_SERIES_SINGLE_PARALLEL THEN {3}
    ELSE {}

\* C11: during apply_combinatorics over strictly positive values every
\* enumerated network is constructed and none raises: no slot entering a
\* reciprocal of its topology's formula is zero (nor the sum r1 + r2 of
\* double-series-then-parallel), a tuple with a zero slot is only ever given
\* to double-series, double-parallel or single-series, and the padded third
\* slot of a double-parallel network does not enter its resistance.
NoZeroInParallelTerm ==
    (pc = "built" /\ \A k \in DOMAIN resistor_values : RatLess(Zero, resistor_values[k]))
    => \A cands \in {Candidates(resistor_values)} :
          /\ raised = ""
          /\ constructed = Len(cands)
          /\ \A i \in DOMAIN cands :
                /\ \A k \in ParallelSlots(cands[i][1]) : cands[i][2][k] # Zero
                /\ cands[i][1] = DOUBLE_SERIES_SINGLE_PARALLEL
                   => RatAdd(cands[i][2][1], cands[i][2][2]) # Zero
                /\ (\E k \in 1..3 : cands[i][2][k] = Zero)
                   => cands[i][1] \in {DOUBLE_SERIES, DOUBLE_PARALLEL, SINGLE_SERIES}
                /\ (cands[i][1] = DOUBLE_PARALLEL /\ cands[i][2][3] = Zero)
                   => \A k \in DOMAIN resistor_values :
                         calculate_resistance(DOUBLE_PARALLEL,
                             <<cands[i][2][1], cands[i][2][2], resistor_values[k]>>)
                         = calculate_resistance(DOUBLE_PARALLEL, cands[i][2])

\* A build that kept a zero-padded double-parallel network in the catalog
NoZeroInParallelTermWitness ==
    /\ pc = "built"
    /\ raised = ""
    /\ Len(resistor_values) >= 2
    /\ \E j \in DOMAIN combos :
          /\ combos[j][2].configuration = DOUBLE_PARALLEL
          /\ combos[j][2].resistors[3] = Zero
          /\ combos[j][2].resistors[1] # combos[j][2].resistors[2]

----------------------------------------------------------------------------
(* Properties of the value series and the codec *)

Encoded == pc \in {"encoded", "decoded"} /\ args.index > 0
Decoded == pc = "decoded" /\ args.index > 0

\* The float at an index of the generated list is the double nearest the
\* exact value the builder computes with
GeneratedOnGrid ==
    Encoded => held = F64OfRat(resistor_values[args.index])

\* C5: for every value v generated for E6, E12 or E24 over 3 or 6 decades,
\* decode_resistance(encode_resistance(v)) == v exactly, the magnitude is an
\* integer in 10..99, the decade is floor(log10(v)), and both fit a byte;
\* and encode_resistance(0) = (0, 0), decode_resistance(0, 0) = 0.
RoundTripExact ==
    /\ Encoded
       => /\ encoded[1] \in 10..99
          /\ encoded[2] = IntLog10(resistor_values[args.index][1] \div resistor_values[args.index][2])
          /\ encoded[1] <= 255 /\ encoded[2] \in 0..255
    /\ Decoded => PyEq(decoded, PyFloat(held))
    /\ (pc \in {"encoded", "decoded"} /\ args.index = 0) => encoded = <<0, 0>>
    /\ (pc = "decoded" /\ args.index = 0) => PyEq(decoded, PyInt(0))

\* C8 as stated: a decade count below 1 is rejected with an error and no
\* value sequence, not even an empty one, comes back
LowOrderRejected ==
    (pc = "generated" /\ args.order < 1) => raised # ""

\* C8: generate_resistor_values called with a decade count below 1 raises
\* nothing and returns the empty sequence
LowOrderYieldsEmpty ==
    (pc = "generated" /\ args.order < 1) => (raised = "" /\ resistor_values = <<>>)

LowOrderYieldsEmptyWitness ==
    /\ pc = "generated"
    /\ args.order = 0
    /\ raised = ""
    /\ resistor_values = <<>>

----------------------------------------------------------------------------
(* Properties of the database generator *)

RowsOf(name) == {i \in DOMAIN table : table[i][2] = name}

\* C10: after generate_database_files completes, for every catalog identifier
\* the key list written for it is strictly ascending and its set of values is
\* exactly the set of resistance keys of the rows stored for that identifier,
\* with one row per key.
ListAndTableInLockStep ==
    pc = "db_done"
    => \A name \in CatalogNames :
          \A rows \in {RowsOf(name)} :
             /\ \A i \in 1..(Len(txt[name]) - 1) : RatLess(txt[name][i], txt[name][i + 1])
             /\ {txt[name][i] : i \in DOMAIN txt[name]} = {table[i][1] : i \in rows}
             /\ Cardinality(rows) = Len(txt[name])

\* A run over a table and files an earlier run left behind
ListAndTableInLockStepWitness ==
    /\ pc = "db_done"
    /\ args.stale > 0
    /\ Len(txt["e24o6"]) > Len(txt["e24o3"])
    /\ Len(txt["e24o3"]) > 1
    /\ Cardinality(RowsOf("e6o3")) > 1

----------------------------------------------------------------------------
(* Properties of the query *)

Queried(via) == pc = "queried" /\ args.via = via

Distance(x, y) == RatAbs(RatSub(x, y))

\* C1: for a non-empty ascending array and any target T, the binary search
\* never faults and selects a key minimising |key - T| over the array, at the
\* distance of the naive linear minimum; and for [1.0, 2.2, 4.7, 10.0] the
\* targets 3.0, 0.5, 15.0 and 4.7 resolve to 2.2, 1.0, 10.0 and 4.7.
NearestKeySelected ==
    (/\ Queried("database")
     /\ args.series_name \in CatalogNames
     /\ available_resistances[args.series_name] # <<>>)
    => \A keys \in {available_resistances[args.series_name]} :
          /\ raised # "IndexError"
          /\ selected # None
          /\ \A i \in DOMAIN keys :
                RatLeq(Distance(selected, args.resistance), Distance(keys[i], args.resistance))
          /\ Distance(selected, args.resistance)
                = Distance(find_nearest_value_naive(keys, args.resistance), args.resistance)
          /\ keys = ExampleArray
             => /\ args.resistance = Whole(3) => selected = <<11, 5>>
                /\ args.resistance = <<1, 2>> => selected = Whole(1)
                /\ args.resistance = Whole(15) => selected = Whole(10)
                /\ args.resistance = <<47, 10>> => selected = <<47, 10>>

\* C3: nearest_network called with a series_name outside the six configured
\* identifiers raises the invalid-series error for every target, with no
\* search made and no row looked up, and leaves the loaded catalogs as they were.
InvalidSeriesRejected ==
    [][(pc' = "queried" /\ args'.series_name \notin CatalogNames)
       => /\ raised' = InvalidSeries
          /\ selected' = None
          /\ network' = NoNetwork
          /\ available_resistances' = available_resistances
          /\ networks' = networks
          /\ table' = table]_vars

InvalidSeriesRejectedWitness ==
    /\ Queried("database")
    /\ args.series_name = "e48o3"
    /\ args.resistance = Whole(15)
    /\ raised = InvalidSeries
    /\ selected = None

\* C4: when the search selected a key and the table holds no row for
\* (series_name, key), nearest_network raises the "No results" error and
\* returns no network.
MissReported ==
    (/\ Queried("database")
     /\ selected # None
     /\ Select(table, selected, args.series_name) = {})
    => (raised = NotFound /\ network = NoNetwork)

\* C9: when T is equidistant from the key before the insertion point and the
\* key at it, the lower of the two is selected.
TieTakesLower ==
    (Queried("database") /\ args.series_name \in CatalogNames)
    => \A keys \in {available_resistances[args.series_name]} :
          \A i \in 1..(Len(keys) - 1) :
             (/\ RatLess(keys[i], args.resistance)
              /\ RatLess(args.resistance, keys[i + 1])
              /\ Distance(keys[i], args.resistance) = Distance(keys[i + 1], args.resistance))
             => (raised # "IndexError" /\ selected = keys[i])

----------------------------------------------------------------------------
(* Properties of the records *)

\* Every network held anywhere: the last one made, the catalog, the loaded dicts
ExistingNetworks ==
    (IF network = NoNetwork THEN {} ELSE {network})
    \cup {combos[j][2] : j \in DOMAIN combos}
    \cup UNION {{networks[name][j][2] : j \in DOMAIN networks[name]} : name \in CatalogNames}

\* The resistance held is the one calculate_resistance gives for the
\* network's own tag and resistors
OfOwnFields(net) ==
    calculate_resistance(net.configuration, net.resistors) = Ok(net.resistance)

\* Every network's resistance is computed from its own fields, and it is
\* None exactly for the tag without a case, SINGLE_PARALLEL
ResistanceOfOwnFieldsOrNone ==
    \A net \in ExistingNetworks :
       /\ OfOwnFields(net)
       /\ net.resistance = None <=> net.configuration = SINGLE_PARALLEL

\* C12: every network that exists after any sequence of construction, catalog
\* build, encode, decode and load holds a resistance, and it is the value of
\* its topology's formula on its own resistors, for each of the 8 tags.
NoMissingOrStaleResistance ==
    \A net \in ExistingNetworks :
       /\ net.resistance # None
       /\ OfOwnFields(net)

====
